---- MODULE Spec2Model ----
(***************************************************************************)
(* A model of bocadillo's App (src/bocadillo/applications.py): the         *)
(* registration facade over a router, an exception middleware, an ASGI     *)
(* middleware chain and a lifespan event registry, and its dispatch of an  *)
(* incoming connection on the scope type.                                  *)
(*                                                                         *)
(* Object references are modelled by identifiers ("router#0", ...); a      *)
(* chain of wrapped ASGI apps is the sequence of its layers, outermost     *)
(* first.  The variable last records the most recent operation (its name,  *)
(* arguments, return value or exception, and what a call went through).    *)
(***************************************************************************)
EXTENDS Integers, Sequences, FiniteSets, TLC

\* ------------------------------------------------------------------ bounds

\* User event handlers registered on one app.
MaxHandlers == 2
\* ASGI middleware registered through add_asgi_middleware on one app.
MaxAsgi == 2
\* HTTP middleware registered through add_middleware on one app.
MaxHttp == 2
\* Registrations of any kind on one app in the specification of all operations.
MaxTotal == 1

\* ------------------------------------------------------------------ values

None == "None"

Events == {"startup", "shutdown"}
\* h_raise is a user handler that raises UserError when it runs.
UserHandlers == {"h1", "h_raise"}

ExcClasses == {"HTTPError", "KeyError"}
UserErrorHandlers == {"eh1", "eh2"}

ASGI3 == {"self", "scope", "receive", "send"}
\* The classes handed to add_asgi_middleware: callable is hasattr(cls, "__call__"),
\* params the parameter names of the signature of cls.__call__.
AsgiClasses ==
    { [name |-> "MwA", callable |-> TRUE, params |-> ASGI3],
      [name |-> "MwB", callable |-> TRUE, params |-> ASGI3],
      [name |-> "LegacyAsgi2", callable |-> TRUE, params |-> {"self", "scope"}],
      [name |-> "NoSend", callable |-> TRUE, params |-> {"self", "scope", "receive"}],
      [name |-> "NoReceive", callable |-> TRUE, params |-> {"self", "scope", "send"}],
      [name |-> "NotCallable", callable |-> FALSE, params |-> {}] }
TrustedHostMiddleware ==
    [name |-> "TrustedHostMiddleware", callable |-> TRUE, params |-> ASGI3]
AsgiClass(n) == CHOOSE c \in AsgiClasses \cup {TrustedHostMiddleware} : c.name = n

HttpClasses == {"HttpA", "HttpB"}

Patterns == {"/"}
ScopeTypes == {"lifespan", "http", "websocket", "other"}
Hosts == {"example.com", "testserver"}
\* A connection scope: its type and, for http and websocket, its Host header.
Scopes ==
    [type : {"http", "websocket"}, host : Hosts]
        \cup [type : {"lifespan", "other"}, host : {None}]
\* allowed_hosts=["example.com"] of the test.
AllowedHosts == {"example.com"}

NoClosure == [kind |-> "none", arg |-> None]

VARIABLES
    configured,             \* settings.configured
    allowed_hosts,          \* the allowed_hosts the app was created with ({}: none)
    router,                 \* self.router
    _exception_middleware,  \* self._exception_middleware
    _asgi,                  \* self._asgi
    _lifespan,              \* self._lifespan
    lifespan_pc,            \* where the lifespan call of the server stands
    pending,                \* the decorator last returned and not yet dropped
    last,                   \* the most recent operation and its outcome
    instantiated,           \* the middleware classes instantiated so far
    asgi_log,               \* the classes add_asgi_middleware accepted, in order
    http_log                \* the classes add_middleware was given, in order

vars == <<configured, allowed_hosts, router, _exception_middleware, _asgi,
          _lifespan, lifespan_pc, pending, last, instantiated, asgi_log, http_log>>

\* ----------------------------------------------------------------- helpers

RECURSIVE Reverse(_)
Reverse(s) == IF s = <<>> THEN <<>> ELSE Append(Reverse(Tail(s)), Head(s))

IsPrefix(p, s) == Len(p) <= Len(s) /\ SubSeq(s, 1, Len(p)) = p

Range(s) == {s[i] : i \in 1..Len(s)}

Outcome(op, args, ret, exc) ==
    [op |-> op, args |-> args, ret |-> ret, exc |-> exc,
     targets |-> <<>>, trace |-> <<>>, ran |-> <<>>, status |-> 0]

\* --------------------------------------------------- external collaborators

\* Lifespan(): no handler under either event.
Lifespan == [id |-> "lifespan#0", startup |-> <<>>, shutdown |-> <<>>]

\* Lifespan.add_event_handler(event, func): func is appended under event.
add_event_handler(ls, event, func) == [ls EXCEPT ![event] = Append(@, func)]

\* Router(): no route.
Router == [id |-> "router#0", routes |-> {}]

\* Router.route / websocket_route (the decorator applied) and Router.mount.
add_route(r, kind, pattern) ==
    [r EXCEPT !.routes = @ \cup {[kind |-> kind, pattern |-> pattern]}]

\* ExceptionMiddleware(app, handlers=...)
ExceptionMiddleware(app, handlers) ==
    [id |-> "exception_middleware#0", app |-> app, handlers |-> handlers]

\* ExceptionMiddleware.add_exception_handler(exception_cls, handler)
add_exception_handler(em, exception_cls, handler) ==
    [em EXCEPT !.handlers[exception_cls] = handler]

\* ----------------------------------------------------------- App.__init__

check_app_inverted == IF configured THEN "RuntimeError" ELSE None
\* The startup check: raises RuntimeError unless settings.configured.
check_app == IF ~configured THEN "RuntimeError" ELSE None

InitHandlers == [c \in ExcClasses |-> IF c = "HTTPError" THEN "error_to_json" ELSE None]

InitExceptionMiddleware == ExceptionMiddleware(<<Router.id>>, InitHandlers)

InitAsgiSwapped ==
    <<"RequestResponseMiddleware", InitExceptionMiddleware.id, "ServerErrorMiddleware">>
\* RequestResponseMiddleware(ServerErrorMiddleware(self._exception_middleware))
InitAsgi ==
    <<"RequestResponseMiddleware", "ServerErrorMiddleware", InitExceptionMiddleware.id>>

\* @self.on("startup") applied to check_app.
InitLifespan == add_event_handler(Lifespan, "startup", "check_app")

\* ------------------------------------------------- App.add_asgi_middleware

asgi3_check_and(cls) ==
    IF cls.callable
    THEN IF "receive" \notin cls.params /\ "send" \notin cls.params
         THEN "ValueError" ELSE None
    ELSE None
\* The ASGI3 check: the exception it raises, or None.
asgi3_check(cls) ==
    IF cls.callable
    THEN IF "receive" \notin cls.params \/ "send" \notin cls.params
         THEN "ValueError" ELSE None
    ELSE None

asgi_wrap_exception_middleware(name, chain) == <<name, _exception_middleware.id>>
asgi_wrap_inside(name, chain) == chain \o <<name>>
\* middleware_cls(self._asgi, **kwargs)
asgi_wrap(name, chain) == <<name>> \o chain

\* middleware_cls(self._exception_middleware.app, **kwargs)
http_wrap(name, chain) == <<name>> \o chain

\* App.recipe hands the app to recipe.apply, which goes through the operations
\* below; App.name is a label no operation reads.

\* ------------------------------------------------------------- App.__call__

dispatch_both(scope) == IF scope.type = "lifespan" THEN <<"lifespan", "asgi">> ELSE <<"asgi">>
\* The targets App.__call__ awaits for a scope.
dispatch(scope) == IF scope.type = "lifespan" THEN <<"lifespan">> ELSE <<"asgi">>

\* Lifespan.startup / shutdown: the handlers run in order until one raises.
HandlerRaises(h) ==
    IF h = "check_app" THEN check_app
    ELSE IF h = "h_raise" THEN "UserError" ELSE None

RECURSIVE RunHandlers(_)
RunHandlers(hs) ==
    IF hs = <<>> THEN [ran |-> <<>>, exc |-> None]
    ELSE IF HandlerRaises(Head(hs)) # None
         THEN [ran |-> <<Head(hs)>>, exc |-> HandlerRaises(Head(hs))]
         ELSE LET rest == RunHandlers(Tail(hs))
              IN  [ran |-> <<Head(hs)>> \o rest.ran, exc |-> rest.exc]

\* TrustedHostMiddleware: an http or websocket connection whose Host is not
\* allowed is answered 400 and goes no further.
HostRejected(layer, scope) ==
    /\ layer = "TrustedHostMiddleware"
    /\ scope.type \in {"http", "websocket"}
    /\ scope.host \notin allowed_hosts

\* The layers a connection enters, from the outermost of chain inwards; the
\* exception middleware hands over to the app it wraps.
RECURSIVE Enter(_, _)
Enter(chain, scope) ==
    IF chain = <<>> THEN <<>>
    ELSE IF HostRejected(Head(chain), scope) THEN <<Head(chain)>>
    ELSE IF Head(chain) = _exception_middleware.id
         THEN <<Head(chain)>> \o Enter(_exception_middleware.app, scope)
         ELSE <<Head(chain)>> \o Enter(Tail(chain), scope)

\* The status of the response to an http request that went through trace.
Status(trace, scope) ==
    IF scope.type # "http" THEN 0
    ELSE IF trace # <<>> /\ HostRejected(trace[Len(trace)], scope) THEN 400
    ELSE IF trace # <<>> /\ trace[Len(trace)] = router.id
         THEN IF \E r \in router.routes : r.kind \in {"http", "mount"} THEN 200 ELSE 404
         ELSE 500

\* -------------------------------------------------------------------- Init

\* App(): the state the constructor leaves.
App_init ==
    /\ router = Router
    /\ _exception_middleware = InitExceptionMiddleware
    /\ _asgi = InitAsgi
    /\ _lifespan = InitLifespan
    /\ allowed_hosts = {}
    /\ instantiated = {}
    /\ asgi_log = <<>>

\* API(allowed_hosts=[...]): an app whose chain is wrapped in the host check.
API_init ==
    /\ router = Router
    /\ _exception_middleware = InitExceptionMiddleware
    /\ _asgi = asgi_wrap(TrustedHostMiddleware.name, InitAsgi)
    /\ _lifespan = InitLifespan
    /\ allowed_hosts = AllowedHosts
    /\ instantiated = {TrustedHostMiddleware.name}
    /\ asgi_log = <<TrustedHostMiddleware.name>>

Init ==
    /\ configured \in BOOLEAN
    /\ (App_init \/ API_init)
    /\ lifespan_pc = "idle"
    /\ pending = NoClosure
    /\ last = Outcome("init", <<>>, None, None)
    /\ http_log = <<>>

\* ------------------------------------------------------------------ App.on

LifespanFull == Len(_lifespan.startup) + Len(_lifespan.shutdown) >= 1 + MaxHandlers

on_prepend(event, handler) ==
    /\ ~LifespanFull
    /\ IF handler = None
       THEN /\ pending' = [kind |-> "register", arg |-> event]
            /\ last' = Outcome("on", <<event, None>>, "register", None)
            /\ UNCHANGED _lifespan
       ELSE /\ _lifespan' = [_lifespan EXCEPT ![event] = <<handler>> \o @]
            /\ last' = Outcome("on", <<event, handler>>, handler, None)
            /\ UNCHANGED pending
    /\ UNCHANGED <<configured, allowed_hosts, router, _exception_middleware, _asgi,
                   lifespan_pc, instantiated, asgi_log, http_log>>

on_eager(event, handler) ==
    /\ ~LifespanFull
    /\ IF handler = None
       THEN /\ pending' = [kind |-> "register", arg |-> event]
            /\ last' = Outcome("on", <<event, None>>, "register", None)
            /\ _lifespan' = add_event_handler(_lifespan, event, None)
       ELSE /\ _lifespan' = add_event_handler(_lifespan, event, handler)
            /\ last' = Outcome("on", <<event, handler>>, handler, None)
            /\ UNCHANGED pending
    /\ UNCHANGED <<configured, allowed_hosts, router, _exception_middleware, _asgi,
                   lifespan_pc, instantiated, asgi_log, http_log>>

\* on(event, handler): with a handler, it is registered under event and
\* returned; with None, the decorator register is returned.
on(event, handler) ==
    /\ ~LifespanFull
    /\ IF handler = None
       THEN /\ pending' = [kind |-> "register", arg |-> event]
            /\ last' = Outcome("on", <<event, None>>, "register", None)
            /\ UNCHANGED _lifespan
       ELSE /\ _lifespan' = add_event_handler(_lifespan, event, handler)
            /\ last' = Outcome("on", <<event, handler>>, handler, None)
            /\ UNCHANGED pending
    /\ UNCHANGED <<configured, allowed_hosts, router, _exception_middleware, _asgi,
                   lifespan_pc, instantiated, asgi_log, http_log>>

\* register(func): the decorator on(event) returned, applied to func.
register(func) ==
    /\ pending.kind = "register"
    /\ ~LifespanFull
    /\ _lifespan' = add_event_handler(_lifespan, pending.arg, func)
    /\ last' = Outcome("register", <<pending.arg, func>>, func, None)
    /\ UNCHANGED <<configured, allowed_hosts, router, _exception_middleware, _asgi,
                   lifespan_pc, pending, instantiated, asgi_log, http_log>>

\* ------------------------------------- App.add_error_handler, error_handler

add_error_handler_setdefault(em, exception_cls, handler) ==
    IF em.handlers[exception_cls] = None
    THEN add_exception_handler(em, exception_cls, handler)
    ELSE em
\* The exception middleware after add_error_handler(exception_cls, handler).
add_error_handler(em, exception_cls, handler) ==
    add_exception_handler(em, exception_cls, handler)

\* app.add_error_handler(exception_cls, handler)
AddErrorHandler(exception_cls, handler) ==
    /\ _exception_middleware' =
           add_error_handler(_exception_middleware, exception_cls, handler)
    /\ last' = Outcome("add_error_handler", <<exception_cls, handler>>, None, None)
    /\ UNCHANGED <<configured, allowed_hosts, router, _asgi, _lifespan, lifespan_pc,
                   pending, instantiated, asgi_log, http_log>>

\* error_handler(exception_cls): the decorator wrapper is returned.
error_handler(exception_cls) ==
    /\ pending' = [kind |-> "wrapper", arg |-> exception_cls]
    /\ last' = Outcome("error_handler", <<exception_cls>>, "wrapper", None)
    /\ UNCHANGED <<configured, allowed_hosts, router, _exception_middleware, _asgi,
                   _lifespan, lifespan_pc, instantiated, asgi_log, http_log>>

\* wrapper(handler): the decorator error_handler returned, applied to handler.
wrapper(handler) ==
    /\ pending.kind = "wrapper"
    /\ _exception_middleware' =
           add_error_handler(_exception_middleware, pending.arg, handler)
    /\ last' = Outcome("wrapper", <<pending.arg, handler>>, handler, None)
    /\ UNCHANGED <<configured, allowed_hosts, router, _asgi, _lifespan, lifespan_pc,
                   pending, instantiated, asgi_log, http_log>>

\* --------------------------------------------------------- App.add_middleware

add_middleware_rewrap(middleware_cls) ==
    /\ Len(http_log) < MaxHttp
    /\ _exception_middleware' =
           [_exception_middleware EXCEPT !.app = http_wrap(middleware_cls, @)]
    /\ _asgi' = asgi_wrap(middleware_cls, _asgi)
    /\ instantiated' = instantiated \cup {middleware_cls}
    /\ http_log' = Append(http_log, middleware_cls)
    /\ last' = Outcome("add_middleware", <<middleware_cls>>, None, None)
    /\ UNCHANGED <<configured, allowed_hosts, router, _lifespan, lifespan_pc,
                   pending, asgi_log>>

\* add_middleware(middleware_cls): the app the exception middleware wraps is
\* wrapped in a new instance of middleware_cls.
add_middleware(middleware_cls) ==
    /\ Len(http_log) < MaxHttp
    /\ _exception_middleware' =
           [_exception_middleware EXCEPT !.app = http_wrap(middleware_cls, @)]
    /\ instantiated' = instantiated \cup {middleware_cls}
    /\ http_log' = Append(http_log, middleware_cls)
    /\ last' = Outcome("add_middleware", <<middleware_cls>>, None, None)
    /\ UNCHANGED <<configured, allowed_hosts, router, _asgi, _lifespan, lifespan_pc,
                   pending, asgi_log>>

\* add_asgi_middleware(middleware_cls): ValueError for a class that fails the
\* ASGI3 check, TypeError for one that cannot be called; otherwise _asgi is
\* wrapped in a new instance.
add_asgi_middleware(middleware_cls) ==
    /\ Len(asgi_log) < MaxAsgi + (IF allowed_hosts = {} THEN 0 ELSE 1)
    /\ IF asgi3_check(middleware_cls) # None
       THEN /\ last' = Outcome("add_asgi_middleware", <<middleware_cls.name>>,
                               None, asgi3_check(middleware_cls))
            /\ UNCHANGED <<_asgi, instantiated, asgi_log>>
       ELSE IF ~middleware_cls.callable
       THEN /\ last' = Outcome("add_asgi_middleware", <<middleware_cls.name>>,
                               None, "TypeError")
            /\ UNCHANGED <<_asgi, instantiated, asgi_log>>
       ELSE /\ _asgi' = asgi_wrap(middleware_cls.name, _asgi)
            /\ instantiated' = instantiated \cup {middleware_cls.name}
            /\ asgi_log' = Append(asgi_log, middleware_cls.name)
            /\ last' = Outcome("add_asgi_middleware", <<middleware_cls.name>>,
                               None, None)
    /\ UNCHANGED <<configured, allowed_hosts, router, _exception_middleware,
                   _lifespan, lifespan_pc, pending, http_log>>

\* ------------------------------- App.route, App.websocket_route, App.mount

\* route(pattern): the router's decorator is returned.
route(pattern) ==
    /\ pending' = [kind |-> "http", arg |-> pattern]
    /\ last' = Outcome("route", <<pattern>>, "route_decorator", None)
    /\ UNCHANGED <<configured, allowed_hosts, router, _exception_middleware, _asgi,
                   _lifespan, lifespan_pc, instantiated, asgi_log, http_log>>

\* websocket_route(pattern, ...): the router's decorator is returned.
websocket_route(pattern) ==
    /\ pending' = [kind |-> "websocket", arg |-> pattern]
    /\ last' = Outcome("websocket_route", <<pattern>>, "route_decorator", None)
    /\ UNCHANGED <<configured, allowed_hosts, router, _exception_middleware, _asgi,
                   _lifespan, lifespan_pc, instantiated, asgi_log, http_log>>

\* The router's decorator applied to a view: the route is added.
route_decorator ==
    /\ pending.kind \in {"http", "websocket"}
    /\ router' = add_route(router, pending.kind, pending.arg)
    /\ last' = Outcome("route_decorator", <<pending.kind, pending.arg>>, "view", None)
    /\ UNCHANGED <<configured, allowed_hosts, _exception_middleware, _asgi,
                   _lifespan, lifespan_pc, pending, instantiated, asgi_log, http_log>>

\* mount(prefix, app)
mount(prefix) ==
    /\ router' = add_route(router, "mount", prefix)
    /\ last' = Outcome("mount", <<prefix>>, None, None)
    /\ UNCHANGED <<configured, allowed_hosts, _exception_middleware, _asgi,
                   _lifespan, lifespan_pc, pending, instantiated, asgi_log, http_log>>

\* ------------------------------------------------------------- App.__call__

Has(targets, t) == \E i \in 1..Len(targets) : targets[i] = t

\* app(scope, receive, send).  A lifespan connection runs the startup
\* handlers (and stays open until the server shuts down); any other
\* connection goes through the ASGI chain.
call(scope) ==
    LET targets == dispatch(scope)
        run == IF Has(targets, "lifespan")
               THEN RunHandlers(_lifespan.startup)
               ELSE [ran |-> <<>>, exc |-> None]
        trace == IF Has(targets, "asgi") THEN Enter(_asgi, scope) ELSE <<>>
    IN  /\ Has(targets, "lifespan") => lifespan_pc = "idle"
        /\ lifespan_pc' = IF Has(targets, "lifespan")
                          THEN IF run.exc = None THEN "started" ELSE "failed"
                          ELSE lifespan_pc
        /\ last' = [op |-> "call", args |-> <<scope.type, scope.host>>,
                    ret |-> None, exc |-> run.exc, targets |-> targets,
                    trace |-> trace, ran |-> run.ran,
                    status |-> IF Has(targets, "asgi") THEN Status(trace, scope) ELSE 0]
        /\ UNCHANGED <<configured, allowed_hosts, router, _exception_middleware,
                       _asgi, _lifespan, pending, instantiated, asgi_log, http_log>>

\* The server's lifespan.shutdown message on the open lifespan connection:
\* the shutdown handlers run.
lifespan_shutdown ==
    /\ lifespan_pc = "started"
    /\ lifespan_pc' = "stopped"
    /\ LET run == RunHandlers(_lifespan.shutdown)
       IN  last' = [Outcome("lifespan_shutdown", <<>>, None, run.exc)
                      EXCEPT !.ran = run.ran]
    /\ UNCHANGED <<configured, allowed_hosts, router, _exception_middleware,
                   _asgi, _lifespan, pending, instantiated, asgi_log, http_log>>

\* ---------------------------------------------------------- specifications

Registered ==
    Len(_lifespan.startup) + Len(_lifespan.shutdown) - 1
    + Len(asgi_log) + Len(http_log) + Cardinality(router.routes)

\* Every operation of App, on an app with room for one more registration.
Next ==
    \/ Registered < MaxTotal /\ \E e \in Events, h \in UserHandlers \cup {None} : on(e, h)
    \/ Registered < MaxTotal /\ \E f \in UserHandlers : register(f)
    \/ \E c \in ExcClasses, h \in UserErrorHandlers : AddErrorHandler(c, h)
    \/ \E c \in ExcClasses : error_handler(c)
    \/ \E h \in UserErrorHandlers : wrapper(h)
    \/ Registered < MaxTotal /\ \E m \in HttpClasses : add_middleware(m)
    \/ Registered < MaxTotal /\ \E m \in AsgiClasses : add_asgi_middleware(m)
    \/ \E p \in Patterns : route(p)
    \/ \E p \in Patterns : websocket_route(p)
    \/ Registered < MaxTotal /\ route_decorator
    \/ Registered < MaxTotal /\ \E p \in Patterns : mount(p)
    \/ \E s \in Scopes : call(s)
    \/ lifespan_shutdown

Spec == Init /\ [][Next]_vars

\* The lifecycle hooks and the connections of a server.
NextLifespan ==
    \/ \E e \in Events, h \in UserHandlers \cup {None} : on(e, h)
    \/ \E f \in UserHandlers : register(f)
    \/ \E s \in Scopes : call(s)
    \/ lifespan_shutdown

SpecLifespan == Init /\ [][NextLifespan]_vars

\* The error handler registry.
NextErrors ==
    \/ \E c \in ExcClasses, h \in UserErrorHandlers : AddErrorHandler(c, h)
    \/ \E c \in ExcClasses : error_handler(c)
    \/ \E h \in UserErrorHandlers : wrapper(h)

SpecErrors == Init /\ [][NextErrors]_vars

\* The middleware chain and the connections that go through it.
NextChain ==
    \/ \E m \in HttpClasses : add_middleware(m)
    \/ \E m \in AsgiClasses : add_asgi_middleware(m)
    \/ \E p \in Patterns : route(p)
    \/ route_decorator
    \/ \E s \in Scopes : call(s)

SpecChain == Init /\ [][NextChain]_vars

\* ------------------------------------------------------------------ claims

IsCall == last.op = "call"
IsLifespanCall == IsCall /\ last.args[1] = "lifespan"
IsConnection == IsCall /\ last.args[1] # "lifespan"

\* C1: check_app is a startup handler of every App; a lifespan startup with
\* settings.configured false fails with RuntimeError, and with
\* settings.configured true check_app runs and does not raise.
StartupGuard ==
    /\ "check_app" \in Range(_lifespan.startup)
    /\ IsLifespanCall =>
         /\ ~configured => last.exc = "RuntimeError" /\ lifespan_pc = "failed"
         /\ configured => /\ "check_app" \in Range(last.ran)
                          /\ last.exc # "RuntimeError"

StartupGuardWitness ==
    /\ IsLifespanCall
    /\ ~configured
    /\ last.exc = "RuntimeError"
    /\ lifespan_pc = "failed"

LacksAsgi3(cls) == cls.callable /\ ~({"receive", "send"} \subseteq cls.params)

\* C2: add_asgi_middleware raises ValueError for every class whose __call__
\* lacks a receive or a send parameter, and such a call leaves _asgi as it
\* was: the class is neither instantiated nor wrapped around the chain.
RejectsLegacyAsgi ==
    /\ [](\A c \in AsgiClasses :
            LacksAsgi3(c) => c.name \notin instantiated /\ c.name \notin Range(_asgi))
    /\ [][(last'.op = "add_asgi_middleware" /\ LacksAsgi3(AsgiClass(last'.args[1])))
            => /\ last'.exc = "ValueError"
               /\ _asgi' = _asgi
               /\ instantiated' = instantiated
               /\ asgi_log' = asgi_log]_vars

RejectsLegacyAsgiWitness ==
    /\ last.op = "add_asgi_middleware"
    /\ last.args = <<"NoSend">>
    /\ last.exc = "ValueError"
    /\ Len(asgi_log) >= 1

\* C3: a call invokes exactly one target, once: the lifespan registry for a
\* lifespan scope (which never reaches the chain or the router), the ASGI
\* chain for any other scope (which runs no startup or shutdown handler).
DispatchOnType ==
    IsCall =>
        /\ Len(last.targets) = 1
        /\ last.args[1] = "lifespan" =>
             /\ last.targets = <<"lifespan">>
             /\ last.trace = <<>>
             /\ last.ran # <<>>
        /\ last.args[1] # "lifespan" =>
             /\ last.targets = <<"asgi">>
             /\ last.ran = <<>>
             /\ last.trace # <<>>
             /\ last.trace[1] = _asgi[1]

DispatchOnTypeWitness ==
    /\ IsLifespanCall
    /\ last.targets = <<"lifespan">>
    /\ last.ran # <<>>
    /\ Registered >= 1

\* C4: on(event, handler) appends handler under event and returns it;
\* on(event) registers nothing and returns a decorator which, applied to
\* func, appends func under event and returns it, as the direct form does.
OnRegisters ==
    [][/\ (last'.op = "on" /\ last'.args[2] # None) =>
            /\ _lifespan' = [_lifespan EXCEPT ![last'.args[1]] = Append(@, last'.args[2])]
            /\ last'.ret = last'.args[2]
       /\ (last'.op = "on" /\ last'.args[2] = None) =>
            /\ _lifespan' = _lifespan
            /\ last'.ret = "register"
            /\ pending' = [kind |-> "register", arg |-> last'.args[1]]
       /\ last'.op = "register" =>
            /\ pending.kind = "register"
            /\ _lifespan' = [_lifespan EXCEPT ![pending.arg] = Append(@, last'.args[2])]
            /\ last'.ret = last'.args[2]]_vars

OnRegistersWitness ==
    /\ last.op = "register"
    /\ last.args = <<"shutdown", "h1">>
    /\ last.ret = "h1"
    /\ _lifespan.shutdown = <<"h_raise", "h1">>

\* C5: a fresh App maps HTTPError to error_to_json; add_error_handler sets
\* the handler of its class and leaves the other classes' handlers alone, so
\* the handler in effect is the one registered last; the decorator form does
\* the same and returns the handler.
ErrorRegistry ==
    /\ _exception_middleware.handlers["HTTPError"] = "error_to_json"
    /\ [](last.op \in {"add_error_handler", "wrapper"} =>
            _exception_middleware.handlers[last.args[1]] = last.args[2])
    /\ [][/\ last'.op = "add_error_handler" =>
               /\ _exception_middleware'.handlers =
                      [_exception_middleware.handlers EXCEPT ![last'.args[1]] = last'.args[2]]
               /\ last'.ret = None
          /\ last'.op = "wrapper" =>
               /\ pending.kind = "wrapper"
               /\ _exception_middleware'.handlers =
                      [_exception_middleware.handlers EXCEPT ![pending.arg] = last'.args[2]]
               /\ last'.ret = last'.args[2]
          /\ last'.op = "error_handler" =>
               /\ _exception_middleware' = _exception_middleware
               /\ pending' = [kind |-> "wrapper", arg |-> last'.args[1]]]_vars

ErrorRegistryWitness ==
    /\ last.op = "wrapper"
    /\ last.args = <<"HTTPError", "eh2">>
    /\ _exception_middleware.handlers =
           [c \in ExcClasses |-> IF c = "HTTPError" THEN "eh2" ELSE "eh1"]

CompliesAsgi3(cls) == cls.callable /\ {"scope", "receive", "send"} \subseteq cls.params

RECURSIVE Before(_, _)
Before(trace, layer) ==
    IF trace = <<>> \/ Head(trace) = layer THEN <<>>
    ELSE <<Head(trace)>> \o Before(Tail(trace), layer)

\* C7: a class whose __call__ takes (scope, receive, send) is accepted and
\* wrapped around the previous _asgi; a connection enters the ASGI
\* middleware last added first, all of them before RequestResponseMiddleware
\* and ServerErrorMiddleware.
AsgiOutermostLastAdded ==
    /\ [](IsConnection =>
            /\ IsPrefix(Before(last.trace, "RequestResponseMiddleware"), Reverse(asgi_log))
            /\ "RequestResponseMiddleware" \in Range(last.trace) =>
                 Before(last.trace, "RequestResponseMiddleware") = Reverse(asgi_log)
            /\ "ServerErrorMiddleware" \in Range(last.trace) =>
                 IsPrefix(Reverse(asgi_log) \o <<"RequestResponseMiddleware">>,
                          Before(last.trace, "ServerErrorMiddleware")))
    /\ [][(last'.op = "add_asgi_middleware" /\ CompliesAsgi3(AsgiClass(last'.args[1])))
            => /\ last'.exc = None
               /\ _asgi' = <<last'.args[1]>> \o _asgi
               /\ asgi_log' = Append(asgi_log, last'.args[1])]_vars

AsgiOutermostWitness ==
    /\ IsConnection
    /\ asgi_log = <<"MwA", "MwB">>
    /\ SubSeq(last.trace, 1, 4) =
           <<"MwB", "MwA", "RequestResponseMiddleware", "ServerErrorMiddleware">>

ExpectedChain ==
    Reverse(asgi_log)
        \o <<"RequestResponseMiddleware", "ServerErrorMiddleware", _exception_middleware.id>>
        \o Reverse(http_log) \o <<router.id>>

RejectedByHost ==
    /\ allowed_hosts # {}
    /\ last.args[1] \in {"http", "websocket"}
    /\ last.args[2] \notin allowed_hosts

\* C8: the chain of a connection is the ASGI middleware (last added first),
\* RequestResponseMiddleware, ServerErrorMiddleware, the exception
\* middleware, the HTTP middleware (last added first), the router.
ChainStructure ==
    /\ _asgi = Reverse(asgi_log)
           \o <<"RequestResponseMiddleware", "ServerErrorMiddleware", _exception_middleware.id>>
    /\ _exception_middleware.app = Reverse(http_log) \o <<router.id>>
    /\ IsConnection =>
         /\ IsPrefix(last.trace, ExpectedChain)
         /\ ~RejectedByHost => last.trace = ExpectedChain

ChainStructureWitness ==
    /\ IsConnection
    /\ asgi_log = <<"MwB", "MwA">>
    /\ http_log = <<"HttpA", "HttpB">>
    /\ last.trace = <<"MwA", "MwB", "RequestResponseMiddleware", "ServerErrorMiddleware",
                      "exception_middleware#0", "HttpB", "HttpA", "router#0">>

\* C9: check_app is the first startup handler, ahead of every handler the
\* user registers; with settings.configured false the startup fails with
\* RuntimeError before any user handler has run.
CheckAppFirst ==
    /\ _lifespan.startup # <<>>
    /\ _lifespan.startup[1] = "check_app"
    /\ (IsLifespanCall /\ ~configured) =>
         /\ last.ran = <<"check_app">>
         /\ last.exc = "RuntimeError"

CheckAppFirstWitness ==
    /\ IsLifespanCall
    /\ ~configured
    /\ Len(_lifespan.startup) = 3
    /\ last.ran = <<"check_app">>

\* C10: each registration touches its own piece of state only, and none
\* replaces the router, the exception middleware or the lifespan object.
RegistrationFrames ==
    [][/\ last'.op \in {"on", "register"} =>
            /\ UNCHANGED <<router, _exception_middleware, _asgi>>
            /\ _lifespan'.id = _lifespan.id
       /\ last'.op \in {"add_error_handler", "error_handler", "wrapper"} =>
            /\ UNCHANGED <<router, _asgi, _lifespan>>
            /\ _exception_middleware'.app = _exception_middleware.app
            /\ _exception_middleware'.id = _exception_middleware.id
       /\ last'.op = "add_middleware" =>
            /\ UNCHANGED <<router, _asgi, _lifespan>>
            /\ _exception_middleware'.handlers = _exception_middleware.handlers
            /\ _exception_middleware'.id = _exception_middleware.id
       /\ last'.op = "add_asgi_middleware" =>
            UNCHANGED <<router, _exception_middleware, _lifespan>>
       /\ last'.op \in {"route", "websocket_route", "route_decorator", "mount"} =>
            /\ UNCHANGED <<_exception_middleware, _asgi, _lifespan>>
            /\ router'.id = router.id]_vars

RegistrationFramesWitness ==
    /\ last.op = "add_middleware"
    /\ _exception_middleware.app = <<"HttpA", "router#0">>
    /\ _asgi = InitAsgi

====
